---- MODULE Spec2Model ----
(***************************************************************************)
(* Model of torbot.py: a Telegram bot whose command handlers gate the      *)
(* rotation of a Tor exit identity behind a blocklist, a password and a    *)
(* per-user cooldown.                                                      *)
(*                                                                         *)
(* Handlers are coroutines.  Control can only move to another handler at   *)
(* an `await`, and every handler awaits only when it sends its reply, so   *)
(* each handler is one atomic step (everything up to the reply, including  *)
(* the blocking call update_identity) followed by the delivery of the      *)
(* reply.  A handler whose reply is not yet delivered is "in flight"; the  *)
(* handlers in flight are kept as a bag of what each of them did.  Replies *)
(* are taken to be delivered: a failure of the Telegram API itself is not  *)
(* modelled.                                                               *)
(*                                                                         *)
(* Strings the program computes with (arguments, the password, country     *)
(* codes) are sequences of one-character strings, so that strip(), upper() *)
(* and split(',') are computed.  Time is counted in ticks, TicksPerSecond  *)
(* ticks to the second, because the event-loop clock is a float.           *)
(***************************************************************************)
EXTENDS Integers, Sequences, FiniteSets, Bags, TLC

(* ------------------------------ bounds -------------------------------- *)

\* resolution of the event-loop clock in the model
TicksPerSecond == 2

\* command handlers that may be in flight at the same time
MaxTasks == 2

\* the event-loop clock (time.monotonic) when the process starts, in ticks:
\* one tick short of 200 s
StartClock == 399

\* updates arrive while the clock is at most MaxClock seconds
MaxClock == 700

\* the seconds by which the clock advances between two steps
Steps == {100}

\* senders of updates: two ordinary users and one blocked user
Users == {1, 2, 123456789}

\* senders of updates when handlers overlap
ConcurrentUsers == {1}

\* argument lists of /auth: the password, a wrong one, none, two
AuthArgs ==
    { << <<"A", "U", "T", "H", "E", "N", "T", "I", "C", "A", "T", "E", "_",
           "P", "A", "S", "S", "W", "O", "R", "D", "_", "M", "U", "S", "T",
           "_", "B", "E", "_", "H", "E", "R", "E">> >>,
      << <<"a", "u", "t", "h">> >>,
      << >>,
      << <<"x">>, <<"y">> >> }

\* argument lists of /setcountry
CountryArgs ==
    { << <<"j", "p">> >>, << <<"D", "E">> >>, << <<"z", "z">> >>,
      << >>, << <<"j", "p">>, <<"d", "e">> >> }

\* argument lists of /countries
CountriesArgs == { << >>, << <<"x">> >> }

\* query strings of an inline query
Queries == { << >>, <<"t", "o", "r">> }

\* values random.randint(2700, 4500) may return
Intervals == {2700, 4500}

(* --------------------------- python strings --------------------------- *)

Whitespace == {" ", "\t", "\n", "\r"}

LowerLetters ==
    <<"a", "b", "c", "d", "e", "f", "g", "h", "i", "j", "k", "l", "m",
      "n", "o", "p", "q", "r", "s", "t", "u", "v", "w", "x", "y", "z">>

UpperLetters ==
    <<"A", "B", "C", "D", "E", "F", "G", "H", "I", "J", "K", "L", "M",
      "N", "O", "P", "Q", "R", "S", "T", "U", "V", "W", "X", "Y", "Z">>

UpperChar(c) ==
    IF \E i \in 1 .. 26 : LowerLetters[i] = c
    THEN UpperLetters[CHOOSE i \in 1 .. 26 : LowerLetters[i] = c]
    ELSE c

\* str.upper()
Upper(s) == [i \in 1 .. Len(s) |-> UpperChar(s[i])]

RECURSIVE LStrip(_)
LStrip(s) ==
    IF s # << >> /\ Head(s) \in Whitespace THEN LStrip(Tail(s)) ELSE s

RECURSIVE RStrip(_)
RStrip(s) ==
    IF s # << >> /\ s[Len(s)] \in Whitespace
    THEN RStrip(SubSeq(s, 1, Len(s) - 1))
    ELSE s

\* str.strip()
Strip(s) == RStrip(LStrip(s))

\* str.split(sep), the pieces as a sequence; acc is the piece being read
RECURSIVE SplitFrom(_, _, _)
SplitFrom(s, sep, acc) ==
    IF s = << >> THEN <<acc>>
    ELSE IF Head(s) = sep THEN <<acc>> \o SplitFrom(Tail(s), sep, << >>)
    ELSE SplitFrom(Tail(s), sep, Append(acc, Head(s)))

Split(s, sep) == SplitFrom(s, sep, << >>)

\* None, and the value of dict.get(key) for a missing key
None == << >>

(* --------------------------- configuration ---------------------------- *)

AUTH_PASSWORD ==
    <<"A", "U", "T", "H", "E", "N", "T", "I", "C", "A", "T", "E", "_", "P",
      "A", "S", "S", "W", "O", "R", "D", "_", "M", "U", "S", "T", "_", "B",
      "E", "_", "H", "E", "R", "E">>

ALLOWED_COUNTRIES_ENV ==
    <<"N", "O", ",", "F", "I", ",", "D", "K", ",", "S", "E", ",", "I", "S",
      ",", "N", "L", ",", "D", "E", ",", "C", "A", ",", "C", "H", ",", "N",
      "Z", ",", "A", "U", ",", "B", "E", ",", "I", "E", ",", "E", "E", ",",
      "P", "T", ",", "L", "U", ",", "U", "Y", ",", "T", "W", ",", "J", "P",
      ",", "K", "R">>

BLOCKED_USER_IDS == {123456789, 987654321}

VALID_COUNTRIES ==
    LET parts == Split(ALLOWED_COUNTRIES_ENV, ",")
    IN  { Upper(Strip(parts[i])) :
            i \in { j \in 1 .. Len(parts) : Strip(parts[j]) # << >> } }

RATE_LIMIT == 5 * 60

(* ------------------------------- state -------------------------------- *)

VARIABLES
    authenticated_users,  \* dict: user id -> True
    user_preferences,     \* dict: user id -> country code
    user_last_update,     \* dict: user id -> clock of the last recorded rotation
    clock,                \* asyncio.get_event_loop().time(), in ticks
    tor,                  \* the daemon's ExitNodes / StrictNodes options
    job,                  \* the job queue: the one job run_once() scheduled
    tasks,                \* bag of the handlers in flight: what each did
    scenario              \* observer: progress of the run through the
                          \* auth, setcountry, update, update scenario

vars ==
    <<authenticated_users, user_preferences, user_last_update, clock, tor,
      job, tasks, scenario>>

gate == <<authenticated_users, user_preferences, user_last_update>>

EmptyDict == [k \in {} |-> TRUE]

\* dict.get(key, default)
Get(dict, key, default) ==
    IF key \in DOMAIN dict THEN dict[key] ELSE default

\* the dict replaced by one that holds the new entry only
Put_clobber(dict, key, value) == [k \in {key} |-> value]

\* dict[key] = value
Put(dict, key, value) ==
    [k \in DOMAIN dict \cup {key} |-> IF k = key THEN value ELSE dict[k]]

\* a deletion that is lost
Del_lost(dict, key) == dict

\* del dict[key]
Del(dict, key) == [k \in DOMAIN dict \ {key} |-> dict[k]]

ScenarioOff == [step |-> -1, user |-> 0, calls |-> 0, at |-> 0, reply |-> << >>]

Init ==
    /\ authenticated_users = EmptyDict
    /\ user_preferences = EmptyDict
    /\ user_last_update = EmptyDict
    /\ clock = StartClock
    /\ tor = [ExitNodes |-> << >>, StrictNodes |-> "0"]
    /\ job = "scheduled"
    /\ tasks = EmptyBag
    /\ scenario = [ScenarioOff EXCEPT !.step = 0]

(* ------------------------------ replies ------------------------------- *)

EASTER_EGG == <<"reply_audio(easter_egg.mp3)">>
EGG_MISSING == <<"Easter egg file not found. Please call the administrator.">>
WELCOME == <<"Tor management bot. Use /auth <password> to authenticate.">>
HELP_TEXT == <<"<b>Available commands:</b> ...">>
BLOCKED_A == <<"A?">>
NOT_ALLOWED == <<"You are not allowed to use this bot.">>
ALREADY_AUTH == <<"You are already authenticated.">>
AUTH_USAGE == <<"Usage: /auth <password>">>
AUTH_OK == <<"Authentication successful! Now you can use commands.">>
AUTH_WRONG == <<"Incorrect password. Please try again.">>
NOT_AUTH == <<"You are not authenticated! Please authenticate using /auth <password>.">>
UPDATED == <<"Your Tor identity has been updated!">>
UPDATE_ERROR == <<"An error occurred while updating your identity.">>
COUNTRY_USAGE == <<"Usage: /setcountry <country_code>">>
COUNTRY_INVALID == <<"Invalid country code. Please use a two letter ISO code of country (e.g., US, JP, KR).">>
RESET_DONE == <<"Your country preferences have been reset and Tor identity updated!">>
RESET_ERROR == <<"An error occurred while resetting your preferences.">>
COUNTRIES_USAGE == <<"Usage: /countries">>
COUNTRIES_LIST == <<"Available countries:\n{countries_list}">>
INLINE_EMPTY == <<"answer_inline_query([])">>
INLINE_UPDATED == <<"answer_inline_query([Update Tor Identity])">>
INLINE_SILENT == <<"(logged, no answer)">>

\* f'Please wait {int(wait_time)} seconds before the next update.'
PleaseWait(seconds) == <<"Please wait {} seconds before the next update.", seconds>>

\* f'Preferred country set to: {country_code}'
CountrySet(country_code) == <<"Preferred country set to: {}", country_code>>

(* ------------------------- the rotation client ------------------------ *)

\* where update_identity may raise; "none": it returns normally
FailurePoints == {"from_port", "authenticate", "set_options", "signal", "none"}

\* the options update_identity sets for preferred_country
Options(preferred_country) ==
    IF preferred_country # None /\ Upper(preferred_country) \in VALID_COUNTRIES
    THEN [ExitNodes |-> Upper(preferred_country), StrictNodes |-> "1"]
    ELSE [ExitNodes |-> << >>, StrictNodes |-> "0"]

\* update_identity(preferred_country) that fails at fp: what the daemon is
\* left with, whether NEWNYM was sent, whether the exception is re-raised
Rotation(preferred_country, fp) ==
    [raised |-> fp # "none",
     tor    |-> IF fp \in {"signal", "none"} THEN Options(preferred_country) ELSE tor,
     newnym |-> fp = "none"]

\* the outcomes of one call of update_identity(preferred_country)
update_identity(preferred_country) ==
    { Rotation(preferred_country, fp) : fp \in FailurePoints }

(* ------------------------------ the gate ------------------------------ *)

\* the blocklist is consulted for one of its two ids only
is_blocked_one_id(user_id) == user_id = 987654321

is_blocked(user_id) == user_id \in BLOCKED_USER_IDS

\* the cooldown compared with <= instead of <
RateLimited_inclusive(current_time, last_update) ==
    current_time - last_update <= RATE_LIMIT * TicksPerSecond

\* current_time - last_update < RATE_LIMIT
RateLimited(current_time, last_update) ==
    current_time - last_update < RATE_LIMIT * TicksPerSecond

\* int(RATE_LIMIT - (current_time - last_update))
WaitSeconds(current_time, last_update) ==
    (RATE_LIMIT * TicksPerSecond - (current_time - last_update)) \div TicksPerSecond

(* ------------------------- handlers in flight ------------------------- *)

\* what a handler did before it awaits the delivery of its reply:
\*   args     context.args (the query of an inline query)
\*   rot      "none": update_identity not called, "ok": it returned,
\*            "raised": it raised
\*   country  the argument update_identity was called with
\*   seen, at last_update and current_time as the handler read them (-1: not read)
Ev(user_id, cmd, args, reply, rot, country, seen, at) ==
    [user |-> user_id, cmd |-> cmd, args |-> args, reply |-> reply,
     rot |-> rot, country |-> country, seen |-> seen, at |-> at]

\* a handler that replies without calling update_identity
Said(user_id, cmd, args, reply) ==
    Ev(user_id, cmd, args, reply, "none", None, -1, -1)

\* the scenario observer after the handler step ev
Observe(ev) ==
    IF scenario.step = 0 /\ ev.cmd = "auth" /\ ev.reply = AUTH_OK
    THEN [step |-> 1, user |-> ev.user, calls |-> 0, at |-> 0, reply |-> << >>]
    ELSE IF /\ scenario.step = 1 /\ ev.user = scenario.user
            /\ ev.cmd = "setcountry" /\ Len(ev.reply) = 2
    THEN [scenario EXCEPT !.step = 2]
    ELSE IF /\ scenario.step = 2 /\ ev.user = scenario.user
            /\ ev.cmd = "update" /\ ev.rot # "raised"
    THEN [scenario EXCEPT !.step = 3, !.at = clock,
                          !.calls = IF ev.rot = "ok" THEN 1 ELSE 0]
    ELSE IF /\ scenario.step = 3 /\ ev.user = scenario.user
            /\ ev.cmd = "update" /\ ev.rot # "raised"
            /\ clock - scenario.at < RATE_LIMIT * TicksPerSecond
    THEN [scenario EXCEPT !.step = 4, !.reply = ev.reply,
                          !.calls = @ + IF ev.rot = "ok" THEN 1 ELSE 0]
    ELSE ScenarioOff

\* a handler runs up to the await of its reply
Run(ev) ==
    /\ tasks' = tasks (+) SetToBag({ev})
    /\ scenario' = Observe(ev)

(* ------------------------------ handlers ------------------------------ *)

start_command(user_id) ==
    /\ IF is_blocked(user_id)
       THEN \E exists \in BOOLEAN :
               Run(Said(user_id, "start", << >>, IF exists THEN EASTER_EGG ELSE EGG_MISSING))
       ELSE Run(Said(user_id, "start", << >>, WELCOME))
    /\ UNCHANGED <<gate, clock, tor, job>>

help_command(user_id) ==
    /\ IF is_blocked(user_id)
       THEN Run(Said(user_id, "help", << >>, BLOCKED_A))
       ELSE Run(Said(user_id, "help", << >>, HELP_TEXT))
    /\ UNCHANGED <<gate, clock, tor, job>>

\* /auth that counts the arguments before it looks the user up
auth_command_args_first(user_id, args) ==
    /\ UNCHANGED <<user_preferences, user_last_update, clock, tor, job>>
    /\ IF is_blocked(user_id)
       THEN /\ Run(Said(user_id, "auth", args, BLOCKED_A))
            /\ UNCHANGED authenticated_users
       ELSE IF Len(args) # 1
       THEN /\ Run(Said(user_id, "auth", args, AUTH_USAGE))
            /\ UNCHANGED authenticated_users
       ELSE IF user_id \in DOMAIN authenticated_users
       THEN /\ Run(Said(user_id, "auth", args, ALREADY_AUTH))
            /\ UNCHANGED authenticated_users
       ELSE LET input_password == Strip(args[1])
                correct_password == Strip(AUTH_PASSWORD)
            IN  IF input_password = correct_password
                THEN /\ authenticated_users' = Put(authenticated_users, user_id, TRUE)
                     /\ Run(Said(user_id, "auth", args, AUTH_OK))
                ELSE /\ Run(Said(user_id, "auth", args, AUTH_WRONG))
                     /\ UNCHANGED authenticated_users

\* /auth that stores the failed attempt as authenticated_users[user_id] = False
auth_command_remembers(user_id, args) ==
    /\ UNCHANGED <<user_preferences, user_last_update, clock, tor, job>>
    /\ IF is_blocked(user_id)
       THEN /\ Run(Said(user_id, "auth", args, BLOCKED_A))
            /\ UNCHANGED authenticated_users
       ELSE IF user_id \in DOMAIN authenticated_users
       THEN /\ Run(Said(user_id, "auth", args, ALREADY_AUTH))
            /\ UNCHANGED authenticated_users
       ELSE IF Len(args) # 1
       THEN /\ Run(Said(user_id, "auth", args, AUTH_USAGE))
            /\ UNCHANGED authenticated_users
       ELSE LET input_password == Strip(args[1])
                correct_password == Strip(AUTH_PASSWORD)
            IN  IF input_password = correct_password
                THEN /\ authenticated_users' = Put(authenticated_users, user_id, TRUE)
                     /\ Run(Said(user_id, "auth", args, AUTH_OK))
                ELSE /\ Run(Said(user_id, "auth", args, AUTH_WRONG))
                     /\ authenticated_users' = Put(authenticated_users, user_id, FALSE)

auth_command(user_id, args) ==
    /\ UNCHANGED <<user_preferences, user_last_update, clock, tor, job>>
    /\ IF is_blocked(user_id)
       THEN /\ Run(Said(user_id, "auth", args, BLOCKED_A))
            /\ UNCHANGED authenticated_users
       ELSE IF user_id \in DOMAIN authenticated_users
       THEN /\ Run(Said(user_id, "auth", args, ALREADY_AUTH))
            /\ UNCHANGED authenticated_users
       ELSE IF Len(args) # 1
       THEN /\ Run(Said(user_id, "auth", args, AUTH_USAGE))
            /\ UNCHANGED authenticated_users
       ELSE LET input_password == Strip(args[1])
                correct_password == Strip(AUTH_PASSWORD)
            IN  IF input_password = correct_password
                THEN /\ authenticated_users' = Put(authenticated_users, user_id, TRUE)
                     /\ Run(Said(user_id, "auth", args, AUTH_OK))
                ELSE /\ Run(Said(user_id, "auth", args, AUTH_WRONG))
                     /\ UNCHANGED authenticated_users

\* /update that does not record the time of its rotation
update_command_unrecorded(user_id) ==
    /\ UNCHANGED <<authenticated_users, user_preferences, clock, job>>
    /\ IF is_blocked(user_id)
       THEN /\ Run(Said(user_id, "update", << >>, NOT_ALLOWED))
            /\ UNCHANGED <<user_last_update, tor>>
       ELSE IF user_id \notin DOMAIN authenticated_users
       THEN /\ Run(Said(user_id, "update", << >>, NOT_AUTH))
            /\ UNCHANGED <<user_last_update, tor>>
       ELSE LET current_time == clock
                last_update == Get(user_last_update, user_id, 0)
            IN  IF RateLimited(current_time, last_update)
                THEN /\ Run(Ev(user_id, "update", << >>,
                                  PleaseWait(WaitSeconds(current_time, last_update)),
                                  "none", None, last_update, current_time))
                     /\ UNCHANGED <<user_last_update, tor>>
                ELSE LET preferred_country == Get(user_preferences, user_id, None)
                     IN  \E r \in update_identity(preferred_country) :
                            /\ tor' = r.tor
                            /\ IF r.raised
                               THEN /\ Run(Ev(user_id, "update", << >>, UPDATE_ERROR, "raised",
                                                 preferred_country, last_update, current_time))
                                    /\ UNCHANGED user_last_update
                               ELSE /\ UNCHANGED user_last_update
                                    /\ Run(Ev(user_id, "update", << >>, UPDATED, "ok",
                                                 preferred_country, last_update, current_time))

\* /update that records the time before it knows that the rotation succeeded
update_command_speculative(user_id) ==
    /\ UNCHANGED <<authenticated_users, user_preferences, clock, job>>
    /\ IF is_blocked(user_id)
       THEN /\ Run(Said(user_id, "update", << >>, NOT_ALLOWED))
            /\ UNCHANGED <<user_last_update, tor>>
       ELSE IF user_id \notin DOMAIN authenticated_users
       THEN /\ Run(Said(user_id, "update", << >>, NOT_AUTH))
            /\ UNCHANGED <<user_last_update, tor>>
       ELSE LET current_time == clock
                last_update == Get(user_last_update, user_id, 0)
            IN  IF RateLimited(current_time, last_update)
                THEN /\ Run(Ev(user_id, "update", << >>,
                                  PleaseWait(WaitSeconds(current_time, last_update)),
                                  "none", None, last_update, current_time))
                     /\ UNCHANGED <<user_last_update, tor>>
                ELSE LET preferred_country == Get(user_preferences, user_id, None)
                     IN  \E r \in update_identity(preferred_country) :
                            /\ tor' = r.tor
                            /\ IF r.raised
                               THEN /\ Run(Ev(user_id, "update", << >>, UPDATE_ERROR, "raised",
                                                 preferred_country, last_update, current_time))
                                    /\ user_last_update' =
                                           Put(user_last_update, user_id, current_time)
                               ELSE /\ user_last_update' =
                                           Put(user_last_update, user_id, current_time)
                                    /\ Run(Ev(user_id, "update", << >>, UPDATED, "ok",
                                                 preferred_country, last_update, current_time))

\* /update only logging a failed rotation, as the inline handler does
update_command_silent(user_id) ==
    /\ UNCHANGED <<authenticated_users, user_preferences, clock, job>>
    /\ IF is_blocked(user_id)
       THEN /\ Run(Said(user_id, "update", << >>, NOT_ALLOWED))
            /\ UNCHANGED <<user_last_update, tor>>
       ELSE IF user_id \notin DOMAIN authenticated_users
       THEN /\ Run(Said(user_id, "update", << >>, NOT_AUTH))
            /\ UNCHANGED <<user_last_update, tor>>
       ELSE LET current_time == clock
                last_update == Get(user_last_update, user_id, 0)
            IN  IF RateLimited(current_time, last_update)
                THEN /\ Run(Ev(user_id, "update", << >>,
                                  PleaseWait(WaitSeconds(current_time, last_update)),
                                  "none", None, last_update, current_time))
                     /\ UNCHANGED <<user_last_update, tor>>
                ELSE LET preferred_country == Get(user_preferences, user_id, None)
                     IN  \E r \in update_identity(preferred_country) :
                            /\ tor' = r.tor
                            /\ IF r.raised
                               THEN /\ Run(Ev(user_id, "update", << >>, INLINE_SILENT, "raised",
                                                 preferred_country, last_update, current_time))
                                    /\ UNCHANGED user_last_update
                               ELSE /\ user_last_update' =
                                           Put(user_last_update, user_id, current_time)
                                    /\ Run(Ev(user_id, "update", << >>, UPDATED, "ok",
                                                 preferred_country, last_update, current_time))

\* /update rotating without the user's preference
update_command_unrestricted(user_id) ==
    /\ UNCHANGED <<authenticated_users, user_preferences, clock, job>>
    /\ IF is_blocked(user_id)
       THEN /\ Run(Said(user_id, "update", << >>, NOT_ALLOWED))
            /\ UNCHANGED <<user_last_update, tor>>
       ELSE IF user_id \notin DOMAIN authenticated_users
       THEN /\ Run(Said(user_id, "update", << >>, NOT_AUTH))
            /\ UNCHANGED <<user_last_update, tor>>
       ELSE LET current_time == clock
                last_update == Get(user_last_update, user_id, 0)
            IN  IF RateLimited(current_time, last_update)
                THEN /\ Run(Ev(user_id, "update", << >>,
                                  PleaseWait(WaitSeconds(current_time, last_update)),
                                  "none", None, last_update, current_time))
                     /\ UNCHANGED <<user_last_update, tor>>
                ELSE LET preferred_country == Get(user_preferences, user_id, None)
                     IN  \E r \in update_identity(None) :
                            /\ tor' = r.tor
                            /\ IF r.raised
                               THEN /\ Run(Ev(user_id, "update", << >>, UPDATE_ERROR, "raised",
                                                 preferred_country, last_update, current_time))
                                    /\ UNCHANGED user_last_update
                               ELSE /\ user_last_update' =
                                           Put(user_last_update, user_id, current_time)
                                    /\ Run(Ev(user_id, "update", << >>, UPDATED, "ok",
                                                 preferred_country, last_update, current_time))

update_command(user_id) ==
    /\ UNCHANGED <<authenticated_users, user_preferences, clock, job>>
    /\ IF is_blocked(user_id)
       THEN /\ Run(Said(user_id, "update", << >>, NOT_ALLOWED))
            /\ UNCHANGED <<user_last_update, tor>>
       ELSE IF user_id \notin DOMAIN authenticated_users
       THEN /\ Run(Said(user_id, "update", << >>, NOT_AUTH))
            /\ UNCHANGED <<user_last_update, tor>>
       ELSE LET current_time == clock
                last_update == Get(user_last_update, user_id, 0)
            IN  IF RateLimited(current_time, last_update)
                THEN /\ Run(Ev(user_id, "update", << >>,
                                  PleaseWait(WaitSeconds(current_time, last_update)),
                                  "none", None, last_update, current_time))
                     /\ UNCHANGED <<user_last_update, tor>>
                ELSE LET preferred_country == Get(user_preferences, user_id, None)
                     IN  \E r \in update_identity(preferred_country) :
                            /\ tor' = r.tor
                            /\ IF r.raised
                               THEN /\ Run(Ev(user_id, "update", << >>, UPDATE_ERROR, "raised",
                                                 preferred_country, last_update, current_time))
                                    /\ UNCHANGED user_last_update
                               ELSE /\ user_last_update' =
                                           Put(user_last_update, user_id, current_time)
                                    /\ Run(Ev(user_id, "update", << >>, UPDATED, "ok",
                                                 preferred_country, last_update, current_time))

\* /setcountry storing the argument as typed rather than upper-cased
set_country_command_as_typed(user_id, args) ==
    /\ UNCHANGED <<authenticated_users, user_last_update, clock, tor, job>>
    /\ IF is_blocked(user_id)
       THEN /\ Run(Said(user_id, "setcountry", args, BLOCKED_A))
            /\ UNCHANGED user_preferences
       ELSE IF user_id \notin DOMAIN authenticated_users
       THEN /\ Run(Said(user_id, "setcountry", args, NOT_AUTH))
            /\ UNCHANGED user_preferences
       ELSE IF Len(args) # 1
       THEN /\ Run(Said(user_id, "setcountry", args, COUNTRY_USAGE))
            /\ UNCHANGED user_preferences
       ELSE LET country_code == Upper(args[1])
            IN  IF country_code \notin VALID_COUNTRIES
                THEN /\ Run(Said(user_id, "setcountry", args, COUNTRY_INVALID))
                     /\ UNCHANGED user_preferences
                ELSE /\ user_preferences' = Put(user_preferences, user_id, args[1])
                     /\ Run(Said(user_id, "setcountry", args, CountrySet(country_code)))

\* /setcountry dropping the stored preference when the code is invalid
set_country_command_discards(user_id, args) ==
    /\ UNCHANGED <<authenticated_users, user_last_update, clock, tor, job>>
    /\ IF is_blocked(user_id)
       THEN /\ Run(Said(user_id, "setcountry", args, BLOCKED_A))
            /\ UNCHANGED user_preferences
       ELSE IF user_id \notin DOMAIN authenticated_users
       THEN /\ Run(Said(user_id, "setcountry", args, NOT_AUTH))
            /\ UNCHANGED user_preferences
       ELSE IF Len(args) # 1
       THEN /\ Run(Said(user_id, "setcountry", args, COUNTRY_USAGE))
            /\ UNCHANGED user_preferences
       ELSE LET country_code == Upper(args[1])
            IN  IF country_code \notin VALID_COUNTRIES
                THEN /\ Run(Said(user_id, "setcountry", args, COUNTRY_INVALID))
                     /\ user_preferences' =
                            IF user_id \in DOMAIN user_preferences
                            THEN Del(user_preferences, user_id)
                            ELSE user_preferences
                ELSE /\ user_preferences' = Put(user_preferences, user_id, country_code)
                     /\ Run(Said(user_id, "setcountry", args, CountrySet(country_code)))

\* /setcountry without the authentication check
set_country_command_open(user_id, args) ==
    /\ UNCHANGED <<authenticated_users, user_last_update, clock, tor, job>>
    /\ IF is_blocked(user_id)
       THEN /\ Run(Said(user_id, "setcountry", args, BLOCKED_A))
            /\ UNCHANGED user_preferences
       ELSE IF Len(args) # 1
       THEN /\ Run(Said(user_id, "setcountry", args, COUNTRY_USAGE))
            /\ UNCHANGED user_preferences
       ELSE LET country_code == Upper(args[1])
            IN  IF country_code \notin VALID_COUNTRIES
                THEN /\ Run(Said(user_id, "setcountry", args, COUNTRY_INVALID))
                     /\ UNCHANGED user_preferences
                ELSE /\ user_preferences' = Put(user_preferences, user_id, country_code)
                     /\ Run(Said(user_id, "setcountry", args, CountrySet(country_code)))

set_country_command(user_id, args) ==
    /\ UNCHANGED <<authenticated_users, user_last_update, clock, tor, job>>
    /\ IF is_blocked(user_id)
       THEN /\ Run(Said(user_id, "setcountry", args, BLOCKED_A))
            /\ UNCHANGED user_preferences
       ELSE IF user_id \notin DOMAIN authenticated_users
       THEN /\ Run(Said(user_id, "setcountry", args, NOT_AUTH))
            /\ UNCHANGED user_preferences
       ELSE IF Len(args) # 1
       THEN /\ Run(Said(user_id, "setcountry", args, COUNTRY_USAGE))
            /\ UNCHANGED user_preferences
       ELSE LET country_code == Upper(args[1])
            IN  IF country_code \notin VALID_COUNTRIES
                THEN /\ Run(Said(user_id, "setcountry", args, COUNTRY_INVALID))
                     /\ UNCHANGED user_preferences
                ELSE /\ user_preferences' = Put(user_preferences, user_id, country_code)
                     /\ Run(Said(user_id, "setcountry", args, CountrySet(country_code)))

\* /reset without the rate limit
reset_command_unlimited(user_id) ==
    /\ UNCHANGED <<authenticated_users, clock, job>>
    /\ IF is_blocked(user_id)
       THEN /\ Run(Said(user_id, "reset", << >>, BLOCKED_A))
            /\ UNCHANGED <<user_preferences, user_last_update, tor>>
       ELSE IF user_id \notin DOMAIN authenticated_users
       THEN /\ Run(Said(user_id, "reset", << >>, NOT_AUTH))
            /\ UNCHANGED <<user_preferences, user_last_update, tor>>
       ELSE LET current_time == clock
                last_update == Get(user_last_update, user_id, 0)
            IN  IF FALSE
                THEN /\ Run(Ev(user_id, "reset", << >>,
                                  PleaseWait(WaitSeconds(current_time, last_update)),
                                  "none", None, last_update, current_time))
                     /\ UNCHANGED <<user_preferences, user_last_update, tor>>
                ELSE /\ user_preferences' =
                            IF user_id \in DOMAIN user_preferences
                            THEN Del(user_preferences, user_id)
                            ELSE user_preferences
                     /\ \E r \in update_identity(None) :
                            /\ tor' = r.tor
                            /\ IF r.raised
                               THEN /\ Run(Ev(user_id, "reset", << >>, RESET_ERROR, "raised",
                                                 None, last_update, current_time))
                                    /\ UNCHANGED user_last_update
                               ELSE /\ user_last_update' =
                                           Put(user_last_update, user_id, current_time)
                                    /\ Run(Ev(user_id, "reset", << >>, RESET_DONE, "ok",
                                                 None, last_update, current_time))

\* /reset deleting the preference only once the rotation has succeeded
reset_command_deletes_late(user_id) ==
    /\ UNCHANGED <<authenticated_users, clock, job>>
    /\ IF is_blocked(user_id)
       THEN /\ Run(Said(user_id, "reset", << >>, BLOCKED_A))
            /\ UNCHANGED <<user_preferences, user_last_update, tor>>
       ELSE IF user_id \notin DOMAIN authenticated_users
       THEN /\ Run(Said(user_id, "reset", << >>, NOT_AUTH))
            /\ UNCHANGED <<user_preferences, user_last_update, tor>>
       ELSE LET current_time == clock
                last_update == Get(user_last_update, user_id, 0)
            IN  IF RateLimited(current_time, last_update)
                THEN /\ Run(Ev(user_id, "reset", << >>,
                                  PleaseWait(WaitSeconds(current_time, last_update)),
                                  "none", None, last_update, current_time))
                     /\ UNCHANGED <<user_preferences, user_last_update, tor>>
                ELSE /\ \E r \in update_identity(None) :
                            /\ tor' = r.tor
                            /\ IF r.raised
                               THEN /\ Run(Ev(user_id, "reset", << >>, RESET_ERROR, "raised",
                                                 None, last_update, current_time))
                                    /\ UNCHANGED <<user_preferences, user_last_update>>
                               ELSE /\ user_preferences' =
                                           IF user_id \in DOMAIN user_preferences
                                           THEN Del(user_preferences, user_id)
                                           ELSE user_preferences
                                    /\ user_last_update' =
                                           Put(user_last_update, user_id, current_time)
                                    /\ Run(Ev(user_id, "reset", << >>, RESET_DONE, "ok",
                                                 None, last_update, current_time))

reset_command(user_id) ==
    /\ UNCHANGED <<authenticated_users, clock, job>>
    /\ IF is_blocked(user_id)
       THEN /\ Run(Said(user_id, "reset", << >>, BLOCKED_A))
            /\ UNCHANGED <<user_preferences, user_last_update, tor>>
       ELSE IF user_id \notin DOMAIN authenticated_users
       THEN /\ Run(Said(user_id, "reset", << >>, NOT_AUTH))
            /\ UNCHANGED <<user_preferences, user_last_update, tor>>
       ELSE LET current_time == clock
                last_update == Get(user_last_update, user_id, 0)
            IN  IF RateLimited(current_time, last_update)
                THEN /\ Run(Ev(user_id, "reset", << >>,
                                  PleaseWait(WaitSeconds(current_time, last_update)),
                                  "none", None, last_update, current_time))
                     /\ UNCHANGED <<user_preferences, user_last_update, tor>>
                ELSE /\ user_preferences' =
                            IF user_id \in DOMAIN user_preferences
                            THEN Del(user_preferences, user_id)
                            ELSE user_preferences
                     /\ \E r \in update_identity(None) :
                            /\ tor' = r.tor
                            /\ IF r.raised
                               THEN /\ Run(Ev(user_id, "reset", << >>, RESET_ERROR, "raised",
                                                 None, last_update, current_time))
                                    /\ UNCHANGED user_last_update
                               ELSE /\ user_last_update' =
                                           Put(user_last_update, user_id, current_time)
                                    /\ Run(Ev(user_id, "reset", << >>, RESET_DONE, "ok",
                                                 None, last_update, current_time))

\* /countries without the authentication check
countries_command_open(user_id, args) ==
    /\ UNCHANGED <<gate, clock, tor, job>>
    /\ IF is_blocked(user_id)
       THEN Run(Said(user_id, "countries", args, NOT_ALLOWED))
       ELSE IF Len(args) > 0
       THEN Run(Said(user_id, "countries", args, COUNTRIES_USAGE))
       ELSE Run(Said(user_id, "countries", args, COUNTRIES_LIST))

countries_command(user_id, args) ==
    /\ UNCHANGED <<gate, clock, tor, job>>
    /\ IF is_blocked(user_id)
       THEN Run(Said(user_id, "countries", args, NOT_ALLOWED))
       ELSE IF user_id \notin DOMAIN authenticated_users
       THEN Run(Said(user_id, "countries", args, NOT_AUTH))
       ELSE IF Len(args) > 0
       THEN Run(Said(user_id, "countries", args, COUNTRIES_USAGE))
       ELSE Run(Said(user_id, "countries", args, COUNTRIES_LIST))

\* the inline handler answering only authenticated users
inline_query_handler_gated(user_id, query) ==
    /\ UNCHANGED <<gate, clock, job>>
    /\ IF query = << >>
       THEN UNCHANGED <<tor, tasks, scenario>>
       ELSE IF is_blocked(user_id) \/ user_id \notin DOMAIN authenticated_users
       THEN /\ Run(Said(user_id, "inline", <<query>>, INLINE_EMPTY))
            /\ UNCHANGED tor
       ELSE \E r \in update_identity(None) :
               /\ tor' = r.tor
               /\ IF r.raised
                  THEN Run(Ev(user_id, "inline", <<query>>, INLINE_SILENT, "raised", None, -1, -1))
                  ELSE Run(Ev(user_id, "inline", <<query>>, INLINE_UPDATED, "ok", None, -1, -1))

inline_query_handler(user_id, query) ==
    /\ UNCHANGED <<gate, clock, job>>
    /\ IF query = << >>
       THEN UNCHANGED <<tor, tasks, scenario>>
       ELSE IF is_blocked(user_id)
       THEN /\ Run(Said(user_id, "inline", <<query>>, INLINE_EMPTY))
            /\ UNCHANGED tor
       ELSE \E r \in update_identity(None) :
               /\ tor' = r.tor
               /\ IF r.raised
                  THEN Run(Ev(user_id, "inline", <<query>>, INLINE_SILENT, "raised", None, -1, -1))
                  ELSE Run(Ev(user_id, "inline", <<query>>, INLINE_UPDATED, "ok", None, -1, -1))

\* the await of the reply of the handler that did ev returns; the handler ends
ReplySent(ev) ==
    /\ BagIn(ev, tasks)
    /\ tasks' = tasks (-) SetToBag({ev})
    /\ UNCHANGED <<gate, clock, tor, job, scenario>>

(* ---------------------------- the job queue --------------------------- *)

\* initial_interval = random.randint(2700, 4500) and
\* job_queue.run_once(tor_identity_update_job, initial_interval): the event
\* loop idles until the job is due and runs it; it is not scheduled again
tor_identity_update_job ==
    /\ job = "scheduled"
    /\ \E initial_interval \in Intervals :
          /\ clock <= StartClock + initial_interval * TicksPerSecond
          /\ clock' = StartClock + initial_interval * TicksPerSecond
    /\ job' = "done"
    /\ \E r \in update_identity(None) : tor' = r.tor
    /\ scenario' = ScenarioOff
    /\ UNCHANGED <<gate, tasks>>

(* ------------------------------ the clock ----------------------------- *)

\* no handler is in flight
Serial == tasks = EmptyBag

\* fewer than MaxTasks handlers are in flight
Free == BagCardinality(tasks) < MaxTasks

\* time passes between two updates; the delivery of a reply takes less
\* than one step of the clock
Tick(d) ==
    /\ Serial
    /\ clock + d * TicksPerSecond <= MaxClock * TicksPerSecond
    /\ clock' = clock + d * TicksPerSecond
    /\ UNCHANGED <<gate, tor, job, tasks, scenario>>

(* --------------------------- specification ---------------------------- *)

\* Application.run_polling() with the builder's defaults handles one update
\* at a time: a handler starts when the one before it has ended
Next ==
    \/ \E user_id \in Users : Serial /\ start_command(user_id)
    \/ \E user_id \in Users : Serial /\ help_command(user_id)
    \/ \E user_id \in Users, args \in AuthArgs :
          Serial /\ auth_command(user_id, args)
    \/ \E user_id \in Users : Serial /\ update_command(user_id)
    \/ \E user_id \in Users, args \in CountryArgs :
          Serial /\ set_country_command(user_id, args)
    \/ \E user_id \in Users : Serial /\ reset_command(user_id)
    \/ \E user_id \in Users, args \in CountriesArgs :
          Serial /\ countries_command(user_id, args)
    \/ \E user_id \in Users, query \in Queries :
          Serial /\ inline_query_handler(user_id, query)
    \/ \E ev \in BagToSet(tasks) : ReplySent(ev)
    \/ tor_identity_update_job
    \/ \E d \in Steps : Tick(d)

Spec == Init /\ [][Next]_vars

\* a dispatcher that starts a handler while others await their replies:
\* every interleaving the awaits allow of the handlers that read or write
\* the three maps
NextConcurrent ==
    \/ \E user_id \in ConcurrentUsers, args \in AuthArgs :
          Free /\ auth_command(user_id, args)
    \/ \E user_id \in ConcurrentUsers :
          Free /\ update_command(user_id)
    \/ \E user_id \in ConcurrentUsers, args \in CountryArgs :
          Free /\ set_country_command(user_id, args)
    \/ \E user_id \in ConcurrentUsers :
          Free /\ reset_command(user_id)
    \/ \E ev \in BagToSet(tasks) : ReplySent(ev)
    \/ tor_identity_update_job
    \/ \E d \in Steps : Tick(d)

SpecConcurrent == Init /\ [][NextConcurrent]_vars

(* ------------------------------- claims ------------------------------- *)

\* the step starts a handler, which did ev before awaiting its reply
Started(ev) == tasks' = tasks (+) SetToBag({ev})

\* the commands that require authentication
Protected == {"update", "setcountry", "reset", "countries"}

\* C1: a handler started by a blocked user, whatever the entry point and the
\* arguments, leaves authenticated_users, user_preferences and
\* user_last_update as they were and does not call update_identity
C1_BlockedShortCircuits ==
    [][\A ev \in BagToSet(tasks') :
          (Started(ev) /\ ev.user \in BLOCKED_USER_IDS)
          => /\ gate' = gate
             /\ ev.rot = "none"
             /\ tor' = tor]_vars

\* a blocked user's /auth with the right password is in flight, answered
\* 'A?', while another user is authenticated
C1_Witness ==
    \E ev \in BagToSet(tasks) :
        /\ ev.user \in BLOCKED_USER_IDS
        /\ ev.cmd = "auth"
        /\ ev.args = <<AUTH_PASSWORD>>
        /\ ev.reply = BLOCKED_A
        /\ DOMAIN authenticated_users # {}

\* C2: update, setcountry, reset and countries sent by a user who is not
\* blocked and not authenticated are answered with the 'not authenticated'
\* message, change none of the three maps and do not call update_identity
C2_UnauthenticatedRefused ==
    [][\A ev \in BagToSet(tasks') :
          (/\ Started(ev)
           /\ ev.cmd \in Protected
           /\ ev.user \notin BLOCKED_USER_IDS
           /\ ev.user \notin DOMAIN authenticated_users)
          => /\ ev.reply = NOT_AUTH
             /\ gate' = gate
             /\ ev.rot = "none"
             /\ tor' = tor]_vars

\* an unauthenticated user's /countries is in flight, refused, at a time
\* when the cooldown window of a never-rotated user has passed
C2_Witness ==
    \E ev \in BagToSet(tasks) :
        /\ ev.cmd = "countries"
        /\ ev.user \notin DOMAIN authenticated_users
        /\ ev.user \notin BLOCKED_USER_IDS
        /\ ev.reply = NOT_AUTH
        /\ clock >= RATE_LIMIT * TicksPerSecond

\* update and reset, the commands that rotate
Rotating == {"update", "reset"}

\* the handler that did ev called update_identity, so it was not rate limited
Passed(ev) == ev.cmd \in Rotating /\ ev.rot # "none"

\* two handlers in flight: rotation commands of the same user
RotatingPairs ==
    { p \in BagToSet(tasks) \X BagToSet(tasks) :
        /\ p[1] # p[2] \/ CopiesIn(p[1], tasks) >= 2
        /\ p[1].user = p[2].user
        /\ p[1].cmd \in Rotating
        /\ p[2].cmd \in Rotating }

\* of two rotation handlers started less than RATE_LIMIT apart, at most one
\* performed and recorded a rotation
AtMostOneRecorded(p) ==
    (p[1].rot = "ok" /\ p[2].rot = "ok")
    => \/ p[1].at - p[2].at >= RATE_LIMIT * TicksPerSecond
       \/ p[2].at - p[1].at >= RATE_LIMIT * TicksPerSecond

\* C3 as stated: of two rotation commands of one user in flight at the same
\* time at most one performs and records a rotation, and the two never both
\* pass the rate-limit check against the same old timestamp
C3_Original ==
    \A p \in RotatingPairs :
        /\ AtMostOneRecorded(p)
        /\ ~ (Passed(p[1]) /\ Passed(p[2]) /\ p[1].seen = p[2].seen)

\* C3 as amended: of two rotation commands of one user in flight at the same
\* time at most one performs and records a rotation, and the two both pass
\* the rate-limit check against the same old timestamp only when the
\* rotation call of one of them raised, so that it recorded nothing
C3_AtMostOneRotation ==
    \A p \in RotatingPairs :
        /\ AtMostOneRecorded(p)
        /\ (Passed(p[1]) /\ Passed(p[2]) /\ p[1].seen = p[2].seen)
           => (p[1].rot = "raised" \/ p[2].rot = "raised")

\* a /update that rotated and recorded, and a /reset of the same user, sent
\* at the same time, that met the recorded time and was refused
C3_Witness ==
    \E p \in RotatingPairs :
        /\ p[1].cmd = "update" /\ p[1].rot = "ok"
        /\ p[2].cmd = "reset" /\ p[2].rot = "none"
        /\ p[2].seen = p[1].at
        /\ p[2].at = p[1].at
        /\ p[2].reply = PleaseWait(RATE_LIMIT)

\* C4 as stated: after auth with the password, setcountry with an allowed
\* code and two /update less than RATE_LIMIT seconds apart, none of whose
\* rotations raised, update_identity was called exactly once and the second
\* /update was answered 'Please wait n seconds' with n > 0
C4_ScenarioRotatesOnce ==
    scenario.step = 4
    => /\ scenario.calls = 1
       /\ Len(scenario.reply) = 2
       /\ scenario.reply = PleaseWait(scenario.reply[2])
       /\ scenario.reply[2] > 0

\* C5: user_last_update changes only in the step of a /update or /reset
\* whose call of update_identity returned, and then only the sender's entry,
\* set to the time the handler read; a handler whose call raised leaves the
\* map as it was, so that the same command sent again at once passes the
\* rate-limit check as the failed one did
C5_RecordedOnlyOnSuccess ==
    [][/\ user_last_update' # user_last_update
          => \E ev \in BagToSet(tasks') :
                /\ Started(ev)
                /\ ev.cmd \in Rotating
                /\ ev.rot = "ok"
                /\ user_last_update' = Put(user_last_update, ev.user, clock)
       /\ \A ev \in BagToSet(tasks') :
             (Started(ev) /\ ev.rot = "raised")
             => /\ user_last_update' = user_last_update
                /\ ev.cmd \in Rotating
                   => ~ RateLimited(clock', Get(user_last_update', ev.user, 0))]_vars

\* a /update whose rotation raised is in flight, and the sender's entry is
\* still the time of the earlier rotation the handler read
C5_Witness ==
    \E ev \in BagToSet(tasks) :
        /\ ev.cmd = "update"
        /\ ev.rot = "raised"
        /\ ev.user \in DOMAIN user_last_update
        /\ user_last_update[ev.user] = ev.seen
        /\ ev.at - ev.seen >= RATE_LIMIT * TicksPerSecond

\* C6: /update and /reset of an authenticated user read
\* last = user_last_update.get(u, 0) and the clock; with elapsed = now - last
\* they refuse when elapsed < RATE_LIMIT, with the whole seconds of
\* RATE_LIMIT - elapsed as the wait, and go on to rotate when
\* elapsed >= RATE_LIMIT; with RATE_LIMIT = 300, 100 s after the last
\* rotation the wait is 200 and 300 s after it the command rotates
C6_RateLimitDecision ==
    [][\A ev \in BagToSet(tasks') :
          (/\ Started(ev)
           /\ ev.cmd \in Rotating
           /\ ev.user \in DOMAIN authenticated_users)
          => LET last == IF ev.user \in DOMAIN user_last_update
                         THEN user_last_update[ev.user] ELSE 0
                 elapsed == clock - last
                 window == RATE_LIMIT * TicksPerSecond
             IN  /\ ev.seen = last
                 /\ ev.at = clock
                 /\ elapsed < window
                    => /\ ev.rot = "none"
                       /\ gate' = gate
                       /\ Len(ev.reply) = 2
                       /\ ev.reply = PleaseWait(ev.reply[2])
                       /\ ev.reply[2] * TicksPerSecond <= window - elapsed
                       /\ window - elapsed < (ev.reply[2] + 1) * TicksPerSecond
                 /\ elapsed >= window => ev.rot # "none"
                 /\ (RATE_LIMIT = 300 /\ elapsed = 100 * TicksPerSecond)
                    => ev.reply = PleaseWait(200)
                 /\ (RATE_LIMIT = 300 /\ elapsed = 300 * TicksPerSecond)
                    => ev.rot # "none"]_vars

\* a /update sent 100 s after a recorded rotation is in flight, answered
\* 'Please wait 200 seconds'
C6_Witness ==
    \E ev \in BagToSet(tasks) :
        /\ ev.cmd = "update"
        /\ ev.seen > 0
        /\ ev.at - ev.seen = 100 * TicksPerSecond
        /\ ev.reply = PleaseWait(200)

\* C7 as stated: a /reset of an authenticated user who has a preference
\* leaves the user without one
C7_Original ==
    [][\A ev \in BagToSet(tasks') :
          (/\ Started(ev)
           /\ ev.cmd = "reset"
           /\ ev.user \in DOMAIN authenticated_users
           /\ ev.user \in DOMAIN user_preferences)
          => ev.user \notin DOMAIN user_preferences']_vars

\* C7 as amended: a /reset of an authenticated user that passes the
\* rate-limit check leaves the user without a preference, whether its
\* rotation returns or raises; a /reset that is rate limited leaves
\* user_preferences as it was
C7_ResetClearsPreference ==
    [][\A ev \in BagToSet(tasks') :
          (/\ Started(ev)
           /\ ev.cmd = "reset"
           /\ ev.user \in DOMAIN authenticated_users)
          => /\ ev.rot # "none" => ev.user \notin DOMAIN user_preferences'
             /\ ev.rot = "none" => user_preferences' = user_preferences]_vars

\* a /setcountry that set a preference and a /reset of the same user that
\* passed the rate-limit check are in flight, and the preference is gone
C7_Witness ==
    \E a \in BagToSet(tasks), b \in BagToSet(tasks) :
        /\ a.user = b.user
        /\ a.cmd = "setcountry" /\ Len(a.reply) = 2
        /\ b.cmd = "reset" /\ b.rot # "none"
        /\ a.user \notin DOMAIN user_preferences

\* C8: a /auth of a user who is in authenticated_users is answered 'already
\* authenticated', whatever its arguments, and leaves authenticated_users
\* as it was
C8_AlreadyAuthenticated ==
    [][\A ev \in BagToSet(tasks') :
          (/\ Started(ev)
           /\ ev.cmd = "auth"
           /\ ev.user \in DOMAIN authenticated_users)
          => /\ ev.reply = ALREADY_AUTH
             /\ authenticated_users' = authenticated_users]_vars

\* the /auth that succeeded and a later /auth of the same user without
\* arguments, answered 'already authenticated', are in flight
C8_Witness ==
    \E a \in BagToSet(tasks), b \in BagToSet(tasks) :
        /\ a.user = b.user
        /\ a.cmd = "auth" /\ a.reply = AUTH_OK
        /\ b.cmd = "auth" /\ b.args = << >> /\ b.reply = ALREADY_AUTH

\* C9: a user who is in authenticated_users is in it after every step
C9_AuthenticationMonotonic ==
    [][\A u \in DOMAIN authenticated_users :
          u \in DOMAIN authenticated_users']_vars

\* both ordinary users are authenticated, the job has run, and a /reset
\* whose rotation raised is in flight
C9_Witness ==
    /\ DOMAIN authenticated_users = {1, 2}
    /\ job = "done"
    /\ \E ev \in BagToSet(tasks) : ev.cmd = "reset" /\ ev.rot = "raised"

\* C10: a /auth of a user who is neither blocked nor authenticated succeeds
\* and inserts the user when it has exactly one argument that equals the
\* password after trimming; otherwise it is answered 'usage' or 'incorrect
\* password' and changes nothing of the program's state
C10_FailedAuthLeavesNoTrace ==
    [][\A ev \in BagToSet(tasks') :
          (/\ Started(ev)
           /\ ev.cmd = "auth"
           /\ ev.user \notin BLOCKED_USER_IDS
           /\ ev.user \notin DOMAIN authenticated_users)
          => IF Len(ev.args) = 1 /\ Strip(ev.args[1]) = Strip(AUTH_PASSWORD)
             THEN /\ ev.reply = AUTH_OK
                  /\ DOMAIN authenticated_users' =
                        DOMAIN authenticated_users \cup {ev.user}
             ELSE /\ ev.reply = IF Len(ev.args) = 1 THEN AUTH_WRONG ELSE AUTH_USAGE
                  /\ UNCHANGED <<gate, clock, tor, job>>]_vars

\* a /auth with a wrong password and the /auth with the password that
\* succeeded after it are in flight
C10_Witness ==
    \E a \in BagToSet(tasks), b \in BagToSet(tasks) :
        /\ a.user = b.user
        /\ a.cmd = "auth" /\ a.reply = AUTH_WRONG
        /\ b.cmd = "auth" /\ b.reply = AUTH_OK

(* ------------------------------- C11 ---------------------------------- *)

\* C11: in every reachable state every value stored in user_preferences is a
\* member of VALID_COUNTRIES.
C11_PreferencesValid ==
    \A u \in DOMAIN user_preferences : user_preferences[u] \in VALID_COUNTRIES

\* a preference typed in lower case is stored, upper-cased, while the handler
\* that stored it awaits its reply
C11_Witness ==
    \E ev \in BagToSet(tasks) :
        /\ ev.cmd = "setcountry"
        /\ Len(ev.args) = 1
        /\ ev.args[1] \notin VALID_COUNTRIES
        /\ ev.user \in DOMAIN user_preferences
        /\ user_preferences[ev.user] = Upper(ev.args[1])
        /\ ev.reply = CountrySet(user_preferences[ev.user])

(* ------------------------------- C12 ---------------------------------- *)

\* the arguments of a /setcountry that the handler refuses
Refused(args) == Len(args) # 1 \/ Upper(args[1]) \notin VALID_COUNTRIES

\* C12: /setcountry by an authenticated user with a number of arguments other
\* than one, or with a code that upper-cased is not in VALID_COUNTRIES, replies
\* with the usage text or the invalid-code text, leaves user_preferences and
\* the other two maps as they were and does not call the rotation client.
C12_InvalidCountryKeepsPreference ==
    [][\A ev \in BagToSet(tasks') :
          (/\ Started(ev) /\ ev.cmd = "setcountry"
           /\ ev.user \in DOMAIN authenticated_users
           /\ Refused(ev.args))
          => /\ ev.reply = IF Len(ev.args) # 1 THEN COUNTRY_USAGE ELSE COUNTRY_INVALID
             /\ user_preferences' = user_preferences
             /\ gate' = gate
             /\ ev.rot = "none"
             /\ tor' = tor]_vars

\* a user who has a preference is told that the code is invalid, and still has
\* the preference
C12_Witness ==
    \E ev \in BagToSet(tasks) :
        /\ ev.cmd = "setcountry"
        /\ ev.reply = COUNTRY_INVALID
        /\ ev.user \in DOMAIN user_preferences

(* ------------------------------- C13 ---------------------------------- *)

\* C13: the background job rotates periodically: as long as the process runs
\* the job fires again and again, so a firing, its rotation failed or not,
\* leaves the job scheduled for its next firing.  Stated as a step property: a
\* scheduled job is still scheduled after every step, its own firing included.
C13_JobFiresAgain ==
    [][job = "scheduled" => job' = "scheduled"]_vars

(* ------------------------------- C14 ---------------------------------- *)

\* C14: an inline query with a non-empty query string from a user who is not
\* blocked calls the rotation client with no country, whether or not the user
\* is authenticated and whatever user_last_update holds, and writes none of
\* the three maps; a rotation that succeeds clears the exit-node restriction.
C14_InlineRotatesUngated ==
    [][\A ev \in BagToSet(tasks') :
          (/\ Started(ev) /\ ev.cmd = "inline"
           /\ ev.args[1] # << >>
           /\ ev.user \notin BLOCKED_USER_IDS)
          => /\ ev.rot \in {"ok", "raised"}
             /\ ev.country = None
             /\ tor' \in {r.tor : r \in update_identity(None)}
             /\ ev.rot = "ok" => tor' = Options(None)
             /\ gate' = gate]_vars

\* a user who never authenticated has rotated through an inline query and the
\* exit-node restriction is cleared, while an authenticated user has a
\* preference and a recorded rotation
C14_Witness ==
    \E ev \in BagToSet(tasks) :
        /\ ev.cmd = "inline" /\ ev.rot = "ok"
        /\ ev.user \notin DOMAIN authenticated_users
        /\ tor = Options(None)
        /\ \E v \in DOMAIN user_preferences : v \in DOMAIN user_last_update

(* ------------------------------- C15 ---------------------------------- *)

\* some command of user_id is handled
Command(user_id) ==
    \/ start_command(user_id)
    \/ help_command(user_id)
    \/ \E args \in AuthArgs : auth_command(user_id, args)
    \/ update_command(user_id)
    \/ \E args \in CountryArgs : set_country_command(user_id, args)
    \/ reset_command(user_id)
    \/ \E args \in CountriesArgs : countries_command(user_id, args)

\* C15: a rotation client that raises during /update or /reset is caught in
\* the handler: the user is sent the handler's generic failure reply, the
\* handler can complete, and once no handler is in flight the dispatcher can
\* handle a command of every user.
C15_RotationFailureCaught ==
    /\ \A ev \in BagToSet(tasks) :
          (ev.cmd \in Rotating /\ ev.rot = "raised")
          => /\ ev.reply = IF ev.cmd = "update" THEN UPDATE_ERROR ELSE RESET_ERROR
             /\ ENABLED ReplySent(ev)
    /\ Serial => \A user_id \in Users : ENABLED Command(user_id)

\* the rotation of an /update with a preference has raised and the handler is
\* sending the failure reply
C15_Witness ==
    \E ev \in BagToSet(tasks) :
        /\ ev.cmd = "update" /\ ev.rot = "raised"
        /\ ev.country # None
        /\ ev.reply = UPDATE_ERROR

(* ------------------------------- C16 ---------------------------------- *)

\* C16: update_identity is atomic for the daemon's configuration: a rotation
\* that raised, at whichever step, leaves the exit-node restriction as it was
\* before the call.
C16_FailedRotationLeavesOptions ==
    [][\A ev \in BagToSet(tasks') :
          (Started(ev) /\ ev.rot = "raised") => tor' = tor]_vars

(* ------------------------------- C17 ---------------------------------- *)

\* C17: an /update that passes the gates calls the rotation client with the
\* preference of its user as stored at that moment, or with none; right after
\* a successful /update the daemon's exit nodes are restricted to exactly that
\* preference, or unrestricted if the user has none, whatever rotations of
\* other users came before.
C17_UpdateAppliesOwnPreference ==
    [][\A ev \in BagToSet(tasks') :
          (Started(ev) /\ ev.cmd = "update" /\ ev.rot # "none")
          => /\ ev.country = Get(user_preferences, ev.user, None)
             /\ ev.rot = "ok"
                => tor' = IF ev.user \in DOMAIN user_preferences'
                          THEN [ExitNodes   |-> user_preferences'[ev.user],
                                StrictNodes |-> "1"]
                          ELSE [ExitNodes |-> << >>, StrictNodes |-> "0"]]_vars

\* a user's /update has restricted the exit nodes to that user's country after
\* another user, whose preference is a different country, had rotated
C17_Witness ==
    \E ev \in BagToSet(tasks) :
        /\ ev.cmd = "update" /\ ev.rot = "ok"
        /\ ev.user \in DOMAIN user_preferences
        /\ tor.ExitNodes = user_preferences[ev.user]
        /\ \E v \in DOMAIN user_preferences \ {ev.user} :
              /\ user_preferences[v] # user_preferences[ev.user]
              /\ v \in DOMAIN user_last_update

(* ------------------------------- C18 ---------------------------------- *)

\* the rate-limit window on the scale of the clock
Window == RATE_LIMIT * TicksPerSecond

\* C18: the cooldown is per user and shared by /update and /reset: every
\* write of user_last_update[u], by either command, stores the time of the
\* call, which is at least RATE_LIMIT later than the value it replaces (0 when
\* there was none); no entry is removed or decreases, and an entry changes
\* only by such a write.
C18_TimestampsApart ==
    [][/\ \A ev \in BagToSet(tasks') :
             (Started(ev) /\ ev.cmd \in Rotating /\ ev.rot = "ok")
             => /\ ev.user \in DOMAIN user_last_update'
                /\ user_last_update'[ev.user] = clock
                /\ clock - Get(user_last_update, ev.user, 0) >= Window
       /\ \A u \in DOMAIN user_last_update :
             /\ u \in DOMAIN user_last_update'
             /\ user_last_update'[u] >= user_last_update[u]
       /\ \A u \in DOMAIN user_last_update' :
             Get(user_last_update, u, -1) # user_last_update'[u]
             => /\ user_last_update'[u] - Get(user_last_update, u, 0) >= Window
                /\ \E ev \in BagToSet(tasks') :
                      /\ Started(ev) /\ ev.user = u
                      /\ ev.cmd \in Rotating /\ ev.rot = "ok"]_vars

\* a /reset has replaced the timestamp of an earlier rotation of its user
C18_Witness ==
    \E ev \in BagToSet(tasks) :
        /\ ev.cmd = "reset" /\ ev.rot = "ok"
        /\ ev.seen > 0
        /\ ev.user \in DOMAIN user_last_update
        /\ user_last_update[ev.user] = ev.at
        /\ ev.at - ev.seen >= Window

(* ------------------------------- C19 ---------------------------------- *)

\* C19: a /reset that passes the blocked, authentication and rate-limit checks
\* removes the preference of its user before it calls the rotation client, so
\* when the rotation raises the preference is gone, the preferences of the
\* other users are as they were, and user_last_update is unchanged.
C19_FailedResetLosesPreference ==
    [][\A ev \in BagToSet(tasks') :
          (Started(ev) /\ ev.cmd = "reset" /\ ev.rot = "raised")
          => /\ DOMAIN user_preferences' = DOMAIN user_preferences \ {ev.user}
             /\ \A v \in DOMAIN user_preferences' :
                   user_preferences'[v] = user_preferences[v]
             /\ user_last_update' = user_last_update
             /\ authenticated_users' = authenticated_users]_vars

\* while the reply of the /setcountry that stored a preference is in flight, a
\* /reset of the same user failed to rotate: the preference is gone and the
\* timestamp is the one the /reset saw
C19_Witness ==
    \E a \in BagToSet(tasks), b \in BagToSet(tasks) :
        /\ a.user = b.user
        /\ a.cmd = "setcountry" /\ Len(a.args) = 1
        /\ a.reply = CountrySet(Upper(a.args[1]))
        /\ b.cmd = "reset" /\ b.rot = "raised" /\ b.reply = RESET_ERROR
        /\ b.user \notin DOMAIN user_preferences
        /\ Get(user_last_update, b.user, 0) = b.seen

(* ------------------------------- C20 ---------------------------------- *)

\* C20: in every reachable state no blocked user is a key of
\* authenticated_users, and every key of user_preferences and of
\* user_last_update is a key of authenticated_users.
C20_KeysAuthenticated ==
    /\ DOMAIN authenticated_users \cap BLOCKED_USER_IDS = {}
    /\ DOMAIN user_preferences \subseteq DOMAIN authenticated_users
    /\ DOMAIN user_last_update \subseteq DOMAIN authenticated_users

\* a blocked user has sent /auth with the password while a user who is
\* authenticated has a preference and a recorded rotation
C20_Witness ==
    /\ \E ev \in BagToSet(tasks) :
          /\ ev.user \in BLOCKED_USER_IDS
          /\ ev.cmd = "auth"
          /\ ev.args = <<AUTH_PASSWORD>>
    /\ \E u \in DOMAIN user_preferences : u \in DOMAIN user_last_update

====
